---------------------------- MODULE Spec2Model ----------------------------
(***************************************************************************)
(* A model of the receipt-parsing backend: the OCR service of              *)
(* src/api/services/ocr_service.py and the receipts router of              *)
(* src/api/routers/receipts.py.                                            *)
(*                                                                         *)
(* A text is a sequence of one-character strings, so that the regular      *)
(* expressions of the code are operators over positions of the sequence.   *)
(* A decimal number is the record [int |-> integer digits, frac |->        *)
(* fraction digits], kept normalised (no leading integer zero, no trailing *)
(* fraction zero), so two records are equal exactly when the numbers are.  *)
(* Within the bounds of the model no number lies within a float rounding   *)
(* step of 0.01 or 10000 without being equal to it, and numbers in that    *)
(* range have fewer than 15 significant digits, where Python's float() is  *)
(* injective and order-preserving on decimal strings.                      *)
(* An optional value is a sequence of length 0 (None) or 1.                *)
(***************************************************************************)
EXTENDS Integers, Sequences, FiniteSets, TLC

-----------------------------------------------------------------------------
(* Characters and character classes of Python's re module                  *)

\* \d
DigitChars == {"0", "1", "2", "3", "4", "5", "6", "7", "8", "9"}

IsDigit(c) == c \in DigitChars

DigitVal(c) ==
    CASE c = "0" -> 0 [] c = "1" -> 1 [] c = "2" -> 2 [] c = "3" -> 3
      [] c = "4" -> 4 [] c = "5" -> 5 [] c = "6" -> 6 [] c = "7" -> 7
      [] c = "8" -> 8 [] c = "9" -> 9

\* \s
Whitespace == {" ", "\t", "\n", "\r", "\f"}

IsSpace(c) == c \in Whitespace

UpperCase == {"A", "B", "C", "D", "E", "F", "G", "H", "I", "J", "K", "L", "M",
              "N", "O", "P", "Q", "R", "S", "T", "U", "V", "W", "X", "Y", "Z"}

LowerCase == {"a", "b", "c", "d", "e", "f", "g", "h", "i", "j", "k", "l", "m",
              "n", "o", "p", "q", "r", "s", "t", "u", "v", "w", "x", "y", "z"}

\* \w
WordChars == DigitChars \cup UpperCase \cup LowerCase \cup {"_"}

IsWord(c) == c \in WordChars

\* str.lower(), one character
ToLower ==
    "A" :> "a" @@ "B" :> "b" @@ "C" :> "c" @@ "D" :> "d" @@ "E" :> "e" @@
    "F" :> "f" @@ "G" :> "g" @@ "H" :> "h" @@ "I" :> "i" @@ "J" :> "j" @@
    "K" :> "k" @@ "L" :> "l" @@ "M" :> "m" @@ "N" :> "n" @@ "O" :> "o" @@
    "P" :> "p" @@ "Q" :> "q" @@ "R" :> "r" @@ "S" :> "s" @@ "T" :> "t" @@
    "U" :> "u" @@ "V" :> "v" @@ "W" :> "w" @@ "X" :> "x" @@ "Y" :> "y" @@
    "Z" :> "z"

LowerChar(c) == IF c \in UpperCase THEN ToLower[c] ELSE c

\* str.lower()
Lower(s) == [i \in DOMAIN s |-> LowerChar(s[i])]

None == <<>>

Some(v) == <<v>>

-----------------------------------------------------------------------------
(* Scanning helpers: each returns the first position at or after i that    *)
(* leaves the class (Len(s) + 1 at the end of the text)                    *)

RECURSIVE SkipDigits(_, _)
SkipDigits(s, i) ==
    IF i <= Len(s) /\ IsDigit(s[i]) THEN SkipDigits(s, i + 1) ELSE i

RECURSIVE SkipSpace(_, _)
SkipSpace(s, i) ==
    IF i <= Len(s) /\ IsSpace(s[i]) THEN SkipSpace(s, i + 1) ELSE i

\* [:\s]*
RECURSIVE SkipColonSpace(_, _)
SkipColonSpace(s, i) ==
    IF i <= Len(s) /\ (s[i] = ":" \/ IsSpace(s[i]))
    THEN SkipColonSpace(s, i + 1)
    ELSE i

RECURSIVE SkipWord(_, _)
SkipWord(s, i) ==
    IF i <= Len(s) /\ IsWord(s[i]) THEN SkipWord(s, i + 1) ELSE i

\* the literal lit occurs in s at position i
StartsWith(s, i, lit) ==
    /\ i + Len(lit) - 1 <= Len(s)
    /\ \A n \in DOMAIN lit : s[i + n - 1] = lit[n]

\* s[i] = c, false beyond the end of s
CharAt(s, i, c) == i <= Len(s) /\ s[i] = c

\* \d+\.\d{2} at position i: the position after the match, 0 when there is none
Dec2At(s, i) ==
    LET j == SkipDigits(s, i)
    IN  IF /\ j > i
           /\ j + 2 <= Len(s)
           /\ s[j] = "."
           /\ IsDigit(s[j + 1])
           /\ IsDigit(s[j + 2])
        THEN j + 3
        ELSE 0

NoMatch == [end |-> 0, cap |-> <<>>]

\* a match ending before position e whose group 1 is s[from .. e - 1]
Match(s, from, e) == [end |-> e, cap |-> SubSeq(s, from, e - 1)]

-----------------------------------------------------------------------------
(* Decimal numbers and float()                                             *)

\* the digit values of the digit string s[i .. j - 1]
DigitVals(s, i, j) == [n \in 1..(j - i) |-> DigitVal(s[i + n - 1])]

RECURSIVE StripLeadingZeros(_)
StripLeadingZeros(ds) ==
    IF ds # <<>> /\ ds[1] = 0 THEN StripLeadingZeros(Tail(ds)) ELSE ds

RECURSIVE StripTrailingZeros(_)
StripTrailingZeros(ds) ==
    IF ds # <<>> /\ ds[Len(ds)] = 0
    THEN StripTrailingZeros(SubSeq(ds, 1, Len(ds) - 1))
    ELSE ds

\* the number with integer digits int and fraction digits frac, normalised
Dec(int, frac) ==
    [int |-> StripLeadingZeros(int), frac |-> StripTrailingZeros(frac)]

\* x before y in the lexicographic order (a proper prefix comes first)
LexLess(x, y) ==
    \E n \in 1..(Len(y)) :
        /\ \A o \in 1..(n - 1) : o <= Len(x) /\ x[o] = y[o]
        /\ n > Len(x) \/ x[n] < y[n]

\* a < b and a <= b on normalised decimal numbers
LessDec(a, b) ==
    IF Len(a.int) # Len(b.int)
    THEN Len(a.int) < Len(b.int)
    ELSE LexLess(a.int \o a.frac, b.int \o b.frac)

LeqDec(a, b) == ~LessDec(b, a)

ValueError == [error |-> "ValueError"]

\* float(cap) for a string of digits and dots: digits, at most one ".",
\* digits, with a digit somewhere; anything else raises ValueError
ParseFloat(cap) ==
    LET d == SkipDigits(cap, 1)
        dot == CharAt(cap, d, ".")
        f == IF dot THEN SkipDigits(cap, d + 1) ELSE d
        nfrac == IF dot THEN f - (d + 1) ELSE 0
    IN  IF f = Len(cap) + 1 /\ (d - 1) + nfrac > 0
        THEN Dec(DigitVals(cap, 1, d), DigitVals(cap, d + 1, d + 1 + nfrac))
        ELSE ValueError

-----------------------------------------------------------------------------
(* OCRService._extract_amount                                              *)

LitTotal == <<"t", "o", "t", "a", "l">>

LitAmount == <<"a", "m", "o", "u", "n", "t">>

LitSum == <<"s", "u", "m">>

LitGrandTotal == <<"g", "r", "a", "n", "d", " ", "t", "o", "t", "a", "l">>

LitSubtotal == <<"s", "u", "b", "t", "o", "t", "a", "l">>

\* (?:total|amount|sum|grand total|subtotal), in the order of the alternation
AmountLabels == <<LitTotal, LitAmount, LitSum, LitGrandTotal, LitSubtotal>>

\* the position after the first alternative matching at i, 0 when none does
LabelEnd(s, i) ==
    IF \E n \in DOMAIN AmountLabels : StartsWith(s, i, AmountLabels[n])
    THEN LET n == CHOOSE n \in DOMAIN AmountLabels :
                     /\ StartsWith(s, i, AmountLabels[n])
                     /\ \A o \in 1..(n - 1) : ~StartsWith(s, i, AmountLabels[o])
         IN  i + Len(AmountLabels[n])
    ELSE 0

\* (?:total|amount|sum|grand total|subtotal)[:\s]*\$?(\d+\.?\d*)
MatchLabelled(s, i) ==
    LET l == LabelEnd(s, i)
        j == SkipColonSpace(s, l)
        n == IF CharAt(s, j, "$") THEN j + 1 ELSE j
        d == SkipDigits(s, n)
        e == IF CharAt(s, d, ".") THEN SkipDigits(s, d + 1) ELSE d
    IN  IF l > 0 /\ d > n THEN Match(s, n, e) ELSE NoMatch

\* total[:\s]*(\d+\.\d{2})
MatchAfterTotal(s, i) ==
    LET j == SkipColonSpace(s, i + Len(LitTotal))
        e == Dec2At(s, j)
    IN  IF StartsWith(s, i, LitTotal) /\ e > 0 THEN Match(s, j, e) ELSE NoMatch

\* \$(\d+\.\d{2})
MatchDollar(s, i) ==
    LET e == Dec2At(s, i + 1)
    IN  IF CharAt(s, i, "$") /\ e > 0 THEN Match(s, i + 1, e) ELSE NoMatch

\* (\d+\.\d{2})\s*(?:total|$): the "$" holds at the end of the text (the
\* greedy \s* has by then taken a final line break too)
MatchBeforeTotal(s, i) ==
    LET e == Dec2At(s, i)
        j == SkipSpace(s, e)
    IN  IF e = 0 THEN NoMatch
        ELSE IF StartsWith(s, j, LitTotal)
             THEN [end |-> j + Len(LitTotal), cap |-> SubSeq(s, i, e - 1)]
        ELSE IF j = Len(s) + 1
             THEN [end |-> j, cap |-> SubSeq(s, i, e - 1)]
        ELSE NoMatch

\* (\d+\.\d{2})
MatchBare(s, i) ==
    LET e == Dec2At(s, i)
    IN  IF e > 0 THEN Match(s, i, e) ELSE NoMatch

\* the list "patterns", by index
NumAmountPatterns == 5

AmountPatterns == 1..NumAmountPatterns

AmountMatchAt(p, s, i) ==
    CASE p = 1 -> MatchLabelled(s, i)
      [] p = 2 -> MatchAfterTotal(s, i)
      [] p = 3 -> MatchDollar(s, i)
      [] p = 4 -> MatchBeforeTotal(s, i)
      [] p = 5 -> MatchBare(s, i)

\* re.findall(pattern, s): group 1 of the leftmost non-overlapping matches,
\* scanning from position i
RECURSIVE AmountFindAll(_, _, _)
AmountFindAll(p, s, i) ==
    IF i > Len(s) THEN <<>>
    ELSE LET m == AmountMatchAt(p, s, i)
         IN  IF m.end > 0
             THEN <<m.cap>> \o AmountFindAll(p, s, m.end)
             ELSE AmountFindAll(p, s, i + 1)

\* 0.01
AmountMin == Dec(<<>>, <<0, 1>>)

\* 10000
AmountMax == Dec(<<1, 0, 0, 0, 0>>, <<>>)

\* a filter that forgets the upper end of the range
ReasonableNoMax(amount) == LeqDec(AmountMin, amount)

\* 0.01 <= amount <= 10000
Reasonable(amount) == LeqDec(AmountMin, amount) /\ LeqDec(amount, AmountMax)

\* the inner loop over one pattern's matches: the values appended to amounts
RECURSIVE KeepReasonable(_, _)
KeepReasonable(matches, n) ==
    IF n > Len(matches) THEN <<>>
    ELSE LET amount == ParseFloat(matches[n])
         IN  IF amount # ValueError /\ Reasonable(amount)
             THEN <<amount>> \o KeepReasonable(matches, n + 1)
             ELSE KeepReasonable(matches, n + 1)

\* a loop that stops at the first pattern with a reasonable match
RECURSIVE CollectFirstPattern(_, _)
CollectFirstPattern(s, p) ==
    IF p > NumAmountPatterns THEN <<>>
    ELSE IF KeepReasonable(AmountFindAll(p, s, 1), 1) # <<>>
         THEN KeepReasonable(AmountFindAll(p, s, 1), 1)
    ELSE CollectFirstPattern(s, p + 1)

\* the outer loop "for pattern in patterns", from pattern p on
RECURSIVE CollectAmounts(_, _)
CollectAmounts(s, p) ==
    IF p > NumAmountPatterns THEN <<>>
    ELSE KeepReasonable(AmountFindAll(p, s, 1), 1) \o CollectAmounts(s, p + 1)

\* a choice that keeps the first amount
FirstFrom(amounts, n, best) == best

\* max(amounts): the first greatest element
RECURSIVE MaxFrom(_, _, _)
MaxFrom(amounts, n, best) ==
    IF n > Len(amounts) THEN best
    ELSE MaxFrom(amounts, n + 1,
                 IF LessDec(best, amounts[n]) THEN amounts[n] ELSE best)

ExtractAmount(text) ==
    LET amounts == CollectAmounts(Lower(text), 1)
    IN  IF amounts = <<>> THEN None ELSE Some(MaxFrom(amounts, 2, amounts[1]))

-----------------------------------------------------------------------------
(* OCRService._extract_date                                                *)

IsDateSep(s, i) == CharAt(s, i, "/") \/ CharAt(s, i, "-")

\* the length of the run of digits at position i, at most max
DigitRun(s, i, max) ==
    LET e == SkipDigits(s, i) IN IF e - i > max THEN max ELSE e - i

\* \d{1,2} at position i followed by a character that is not a digit: the
\* position after it, 0 when there is none (with a third digit following,
\* neither one nor two digits can be followed by a separator or a space)
OneOrTwoDigits(s, i) ==
    LET e == SkipDigits(s, i) IN IF e - i \in 1..2 THEN e ELSE 0

\* (\d{1,2}[/-]\d{1,2}[/-]\d{2,4})
MatchNumericDate(s, i) ==
    LET a == OneOrTwoDigits(s, i)
        b == OneOrTwoDigits(s, a + 1)
        c == DigitRun(s, b + 1, 4)
    IN  IF /\ a > 0 /\ IsDateSep(s, a)
           /\ b > 0 /\ IsDateSep(s, b)
           /\ c >= 2
        THEN Match(s, i, b + 1 + c)
        ELSE NoMatch

\* (\d{4}[/-]\d{1,2}[/-]\d{1,2})
MatchIsoDate(s, i) ==
    LET b == OneOrTwoDigits(s, i + 5)
        c == DigitRun(s, b + 1, 2)
    IN  IF /\ DigitRun(s, i, 4) = 4 /\ IsDateSep(s, i + 4)
           /\ b > 0 /\ IsDateSep(s, b)
           /\ c >= 1
        THEN Match(s, i, b + 1 + c)
        ELSE NoMatch

\* (\d{1,2}\s+\w+\s+\d{4})
MatchDayMonthYear(s, i) ==
    LET a == OneOrTwoDigits(s, i)
        w == SkipSpace(s, a)
        x == SkipWord(s, w)
        y == SkipSpace(s, x)
    IN  IF /\ a > 0 /\ w > a
           /\ x > w /\ y > x
           /\ DigitRun(s, y, 4) = 4
        THEN Match(s, i, y + 4)
        ELSE NoMatch

\* (\w+\s+\d{1,2},?\s+\d{4})
MatchMonthDayYear(s, i) ==
    LET w == SkipWord(s, i)
        d == SkipSpace(s, w)
        a == OneOrTwoDigits(s, d)
        c == IF CharAt(s, a, ",") THEN a + 1 ELSE a
        y == SkipSpace(s, c)
    IN  IF /\ w > i /\ d > w
           /\ a > 0 /\ y > c
           /\ DigitRun(s, y, 4) = 4
        THEN Match(s, i, y + 4)
        ELSE NoMatch

\* the list "date_patterns", by index
NumDatePatterns == 4

DateMatchAt(p, s, i) ==
    CASE p = 1 -> MatchNumericDate(s, i)
      [] p = 2 -> MatchIsoDate(s, i)
      [] p = 3 -> MatchDayMonthYear(s, i)
      [] p = 4 -> MatchMonthDayYear(s, i)

\* re.search(pattern, s): the leftmost match at or after position i
RECURSIVE DateSearch(_, _, _)
DateSearch(p, s, i) ==
    IF i > Len(s) THEN NoMatch
    ELSE LET m == DateMatchAt(p, s, i)
         IN  IF m.end > 0 THEN m ELSE DateSearch(p, s, i + 1)

\* a loop that prefers the later patterns
RECURSIVE ExtractDateLastPattern(_, _)
ExtractDateLastPattern(text, p) ==
    IF p > NumDatePatterns THEN None
    ELSE LET later == ExtractDateLastPattern(text, p + 1)
             m == DateSearch(p, text, 1)
         IN  IF later # None THEN later
             ELSE IF m.end > 0 THEN Some(m.cap)
             ELSE None

\* the loop "for pattern in date_patterns", from pattern p on
RECURSIVE ExtractDateFrom(_, _)
ExtractDateFrom(text, p) ==
    IF p > NumDatePatterns THEN None
    ELSE LET m == DateSearch(p, text, 1)
         IN  IF m.end > 0 THEN Some(m.cap) ELSE ExtractDateFrom(text, p + 1)

ExtractDate(text) == ExtractDateFrom(text, 1)

-----------------------------------------------------------------------------
(* OCRService._extract_merchant                                            *)

UnknownMerchant == <<"U", "n", "k", "n", "o", "w", "n", " ", "M", "e", "r", "c", "h", "a", "n", "t">>

\* re.match(r'^\d+[/-]\d+', line)
DateLikePrefix(line) ==
    LET d == SkipDigits(line, 1)
    IN  d > 1 /\ IsDateSep(line, d) /\ d + 1 <= Len(line) /\ IsDigit(line[d + 1])

\* re.match(r'^[\d\s\-\.\$]+$', line)
OnlyNumbersOrSpecial(line) ==
    /\ line # <<>>
    /\ \A n \in DOMAIN line :
           IsDigit(line[n]) \/ IsSpace(line[n]) \/ line[n] \in {"-", ".", "$"}

\* lines[:5]
MerchantScanLines == 5

\* len(line) < 3
MerchantMinLen == 3

\* a loop over all the lines, not the first five
RECURSIVE ExtractMerchantAnyLine(_, _)
ExtractMerchantAnyLine(lines, n) ==
    IF n > Len(lines) THEN UnknownMerchant
    ELSE IF DateLikePrefix(lines[n]) \/ Len(lines[n]) < MerchantMinLen
         THEN ExtractMerchantAnyLine(lines, n + 1)
    ELSE IF OnlyNumbersOrSpecial(lines[n])
         THEN ExtractMerchantAnyLine(lines, n + 1)
    ELSE lines[n]

\* a loop that lets short lines through
RECURSIVE ExtractMerchantAnyLength(_, _)
ExtractMerchantAnyLength(lines, n) ==
    IF n > Len(lines) \/ n > MerchantScanLines THEN UnknownMerchant
    ELSE IF DateLikePrefix(lines[n])
         THEN ExtractMerchantAnyLength(lines, n + 1)
    ELSE IF OnlyNumbersOrSpecial(lines[n])
         THEN ExtractMerchantAnyLength(lines, n + 1)
    ELSE lines[n]

\* the loop "for line in lines[:5]", from line n on
RECURSIVE ExtractMerchantFrom(_, _)
ExtractMerchantFrom(lines, n) ==
    IF n > Len(lines) \/ n > MerchantScanLines THEN UnknownMerchant
    ELSE IF DateLikePrefix(lines[n]) \/ Len(lines[n]) < MerchantMinLen
         THEN ExtractMerchantFrom(lines, n + 1)
    ELSE IF OnlyNumbersOrSpecial(lines[n])
         THEN ExtractMerchantFrom(lines, n + 1)
    ELSE lines[n]

ExtractMerchant(lines) == ExtractMerchantFrom(lines, 1)

-----------------------------------------------------------------------------
(* OCRService._extract_items                                               *)

\* \$?(\d+\.\d{2})
MatchPrice(s, i) ==
    LET n == IF CharAt(s, i, "$") THEN i + 1 ELSE i
        e == Dec2At(s, n)
    IN  IF e > 0 THEN Match(s, n, e) ELSE NoMatch

\* re.findall(r'\$?(\d+\.\d{2})', s), scanning from position i
RECURSIVE PriceFindAll(_, _)
PriceFindAll(s, i) ==
    IF i > Len(s) THEN <<>>
    ELSE LET m == MatchPrice(s, i)
         IN  IF m.end > 0
             THEN <<m.cap>> \o PriceFindAll(s, m.end)
             ELSE PriceFindAll(s, i + 1)

\* re.sub(r'\$?\d+\.\d{2}', '', s), scanning from position i
RECURSIVE RemovePrices(_, _)
RemovePrices(s, i) ==
    IF i > Len(s) THEN <<>>
    ELSE LET m == MatchPrice(s, i)
         IN  IF m.end > 0
             THEN RemovePrices(s, m.end)
             ELSE <<s[i]>> \o RemovePrices(s, i + 1)

\* re.sub(r'[^\w\s]', ' ', s)
BlankPunctuation(s) ==
    [n \in DOMAIN s |-> IF IsWord(s[n]) \/ IsSpace(s[n]) THEN s[n] ELSE " "]

\* str.strip()
RECURSIVE Strip(_)
Strip(s) ==
    IF s = <<>> THEN s
    ELSE IF IsSpace(s[1]) THEN Strip(Tail(s))
    ELSE IF IsSpace(s[Len(s)]) THEN Strip(SubSeq(s, 1, Len(s) - 1))
    ELSE s

\* len(item_name) > 2
ItemNameMinLen == 2

\* items[:10]
MaxItems == 10

\* a loop that takes the first price found on the line
RECURSIVE CollectItemsFirstPrice(_, _)
CollectItemsFirstPrice(lines, n) ==
    IF n > Len(lines) THEN <<>>
    ELSE LET price_matches == PriceFindAll(lines[n], 1)
             item_name ==
                 Strip(BlankPunctuation(Strip(RemovePrices(lines[n], 1))))
         IN  IF /\ price_matches # <<>>
                /\ item_name # <<>>
                /\ Len(item_name) > ItemNameMinLen
             THEN <<[name |-> item_name,
                     price |-> ParseFloat(price_matches[1])]>>
                  \o CollectItemsFirstPrice(lines, n + 1)
             ELSE CollectItemsFirstPrice(lines, n + 1)

\* the loop "for line in lines", from line n on
RECURSIVE CollectItems(_, _)
CollectItems(lines, n) ==
    IF n > Len(lines) THEN <<>>
    ELSE LET price_matches == PriceFindAll(lines[n], 1)
             item_name == Strip(BlankPunctuation(Strip(RemovePrices(lines[n], 1))))
         IN  IF price_matches # <<>> /\ item_name # <<>> /\ Len(item_name) > ItemNameMinLen
             THEN <<[name |-> item_name,
                     price |-> ParseFloat(price_matches[Len(price_matches)])]>>
                  \o CollectItems(lines, n + 1)
             ELSE CollectItems(lines, n + 1)

\* a limit that keeps the last ten items
ExtractLastItems(lines) ==
    LET items == CollectItems(lines, 1)
    IN  SubSeq(items,
               IF Len(items) < MaxItems THEN 1 ELSE Len(items) - MaxItems + 1,
               Len(items))

ExtractItems(lines) ==
    LET items == CollectItems(lines, 1)
    IN  SubSeq(items, 1, IF Len(items) < MaxItems THEN Len(items) ELSE MaxItems)

-----------------------------------------------------------------------------
(* OCRService._determine_category                                          *)

food_keywords ==
    <<<<"r", "e", "s", "t", "a", "u", "r", "a", "n", "t">>,
      <<"c", "a", "f", "e">>,
      <<"c", "o", "f", "f", "e", "e">>,
      <<"p", "i", "z", "z", "a">>,
      <<"b", "u", "r", "g", "e", "r">>,
      <<"f", "o", "o", "d">>,
      <<"d", "i", "n", "i", "n", "g">>,
      <<"k", "i", "t", "c", "h", "e", "n">>,
      <<"b", "i", "s", "t", "r", "o">>,
      <<"g", "r", "i", "l", "l">>>>

shopping_keywords ==
    <<<<"s", "t", "o", "r", "e">>,
      <<"s", "h", "o", "p">>,
      <<"m", "a", "r", "k", "e", "t">>,
      <<"m", "a", "l", "l">>,
      <<"r", "e", "t", "a", "i", "l">>,
      <<"w", "a", "l", "m", "a", "r", "t">>,
      <<"t", "a", "r", "g", "e", "t">>,
      <<"a", "m", "a", "z", "o", "n">>>>

transport_keywords ==
    <<<<"g", "a", "s">>,
      <<"f", "u", "e", "l">>,
      <<"s", "t", "a", "t", "i", "o", "n">>,
      <<"u", "b", "e", "r">>,
      <<"t", "a", "x", "i">>,
      <<"b", "u", "s">>,
      <<"m", "e", "t", "r", "o">>,
      <<"p", "a", "r", "k", "i", "n", "g">>>>

bills_keywords ==
    <<<<"e", "l", "e", "c", "t", "r", "i", "c">>,
      <<"w", "a", "t", "e", "r">>,
      <<"i", "n", "t", "e", "r", "n", "e", "t">>,
      <<"p", "h", "o", "n", "e">>,
      <<"u", "t", "i", "l", "i", "t", "y">>,
      <<"b", "i", "l", "l">>,
      <<"p", "a", "y", "m", "e", "n", "t">>>>

health_keywords ==
    <<<<"p", "h", "a", "r", "m", "a", "c", "y">>,
      <<"h", "o", "s", "p", "i", "t", "a", "l">>,
      <<"c", "l", "i", "n", "i", "c">>,
      <<"m", "e", "d", "i", "c", "a", "l">>,
      <<"d", "o", "c", "t", "o", "r">>,
      <<"h", "e", "a", "l", "t", "h">>>>

\* keyword in merchant_lower
Contains(s, keyword) == \E i \in 1..Len(s) : StartsWith(s, i, keyword)

\* any(keyword in merchant_lower for keyword in keywords)
AnyKeyword(s, keywords) == \E n \in DOMAIN keywords : Contains(s, keywords[n])

\* a classifier without the final "other"
DetermineCategoryNoDefault(merchant, items) ==
    LET merchant_lower == IF merchant # <<>> THEN Lower(merchant) ELSE <<>>
    IN  IF AnyKeyword(merchant_lower, food_keywords) THEN "food"
        ELSE IF AnyKeyword(merchant_lower, shopping_keywords) THEN "shopping"
        ELSE IF AnyKeyword(merchant_lower, transport_keywords) THEN "transport"
        ELSE IF AnyKeyword(merchant_lower, bills_keywords) THEN "bills"
        ELSE IF AnyKeyword(merchant_lower, health_keywords) THEN "healthcare"
        ELSE "unknown"

\* a classifier that tests the shopping keywords before the food keywords
DetermineCategoryShoppingFirst(merchant, items) ==
    LET merchant_lower == IF merchant # <<>> THEN Lower(merchant) ELSE <<>>
    IN  IF AnyKeyword(merchant_lower, shopping_keywords) THEN "shopping"
        ELSE IF AnyKeyword(merchant_lower, food_keywords) THEN "food"
        ELSE IF AnyKeyword(merchant_lower, transport_keywords) THEN "transport"
        ELSE IF AnyKeyword(merchant_lower, bills_keywords) THEN "bills"
        ELSE IF AnyKeyword(merchant_lower, health_keywords) THEN "healthcare"
        ELSE "other"

\* a classifier that falls back on the names of the items
DetermineCategoryFromItems(merchant, items) ==
    LET merchant_lower == IF merchant # <<>> THEN Lower(merchant) ELSE <<>>
    IN  IF AnyKeyword(merchant_lower, food_keywords) THEN "food"
        ELSE IF AnyKeyword(merchant_lower, shopping_keywords) THEN "shopping"
        ELSE IF AnyKeyword(merchant_lower, transport_keywords) THEN "transport"
        ELSE IF AnyKeyword(merchant_lower, bills_keywords) THEN "bills"
        ELSE IF AnyKeyword(merchant_lower, health_keywords) THEN "healthcare"
        ELSE IF \E n \in DOMAIN items :
                    AnyKeyword(Lower(items[n].name), food_keywords)
             THEN "food"
        ELSE "other"

DetermineCategory(merchant, items) ==
    LET merchant_lower == IF merchant # <<>> THEN Lower(merchant) ELSE <<>>
    IN  IF AnyKeyword(merchant_lower, food_keywords) THEN "food"
        ELSE IF AnyKeyword(merchant_lower, shopping_keywords) THEN "shopping"
        ELSE IF AnyKeyword(merchant_lower, transport_keywords) THEN "transport"
        ELSE IF AnyKeyword(merchant_lower, bills_keywords) THEN "bills"
        ELSE IF AnyKeyword(merchant_lower, health_keywords) THEN "healthcare"
        ELSE "other"

\* class ExpenseCategory(str, Enum)
ExpenseCategory ==
    {"food", "transport", "shopping", "entertainment", "bills", "healthcare",
     "other"}

-----------------------------------------------------------------------------
(* OCRService._parse_expense_data                                          *)

\* text.split('\n'): the pieces of s from position i on, cur being the piece
\* read so far
RECURSIVE SplitFrom(_, _, _)
SplitFrom(s, i, cur) ==
    IF i > Len(s) THEN <<cur>>
    ELSE IF s[i] = "\n" THEN <<cur>> \o SplitFrom(s, i + 1, <<>>)
    ELSE SplitFrom(s, i + 1, Append(cur, s[i]))

SplitLines(s) == SplitFrom(s, 1, <<>>)

\* [line.strip() for line in pieces if line.strip()], from piece n on
RECURSIVE StripNonEmpty(_, _)
StripNonEmpty(pieces, n) ==
    IF n > Len(pieces) THEN <<>>
    ELSE IF Strip(pieces[n]) # <<>>
         THEN <<Strip(pieces[n])>> \o StripNonEmpty(pieces, n + 1)
    ELSE StripNonEmpty(pieces, n + 1)

TextLines(text) == StripNonEmpty(SplitLines(text), 1)

ReceiptFrom == <<"R", "e", "c", "e", "i", "p", "t", " ", "f", "r", "o", "m", " ">>

ReceiptExpense == <<"R", "e", "c", "e", "i", "p", "t", " ", "e", "x", "p", "e", "n", "s", "e">>

\* f"Receipt from {merchant}" if merchant else "Receipt expense"
Description(merchant) ==
    IF merchant # <<>> THEN ReceiptFrom \o merchant ELSE ReceiptExpense

ParseExpenseData(text) ==
    LET lines == TextLines(text)
        merchant == ExtractMerchant(lines)
        items == ExtractItems(lines)
    IN  [amount |-> ExtractAmount(text),
         date |-> ExtractDate(text),
         merchant |-> merchant,
         items |-> items,
         category |-> DetermineCategory(merchant, items),
         description |-> Description(merchant)]

-----------------------------------------------------------------------------
(* OCRService.parse_receipt and its collaborators                          *)

\* what cv2.imdecode does with the uploaded bytes: a pixel matrix, None for
\* bytes that are no image, an exception for an empty buffer
Imdecode(contents) ==
    CASE contents = "image" -> [kind |-> "matrix", pixels |-> contents]
      [] contents = "garbage" -> [kind |-> "none"]
      [] contents = "empty" -> [kind |-> "raise"]

\* a reader that forgets the test "image is None"
ReadImageUnchecked(contents) ==
    LET image == Imdecode(contents)
    IN  IF image.kind = "raise" THEN None
        ELSE Some([kind |-> "matrix", pixels |-> contents])

\* _read_image_safely: None when decoding raises or yields no image
ReadImageSafely(contents) ==
    LET image == Imdecode(contents)
    IN  IF image.kind = "raise" THEN None
        ELSE IF image.kind = "none" THEN None
        ELSE Some(image)

\* a preprocessing that hands on a blank matrix when a step raises
PreprocessImageBlank(image, raises) ==
    IF raises THEN [kind |-> "matrix", pixels |-> "empty"]
    ELSE [kind |-> "thresh", pixels |-> image.pixels]

\* _preprocess_image: the thresholded image, or the image itself when
\* cvtColor, GaussianBlur or threshold raises
PreprocessImage(image, raises) ==
    IF raises THEN image ELSE [kind |-> "thresh", pixels |-> image.pixels]

EmptyDict == <<>>

FailureResult(error) ==
    [success |-> FALSE, error |-> error, raw_text |-> <<>>, parsed_data |-> EmptyDict]

\* an end of parse_receipt that fails a receipt without an amount
SuccessNeedsAmount(raw_text, parsed_data) ==
    IF parsed_data.amount = None
    THEN FailureResult("Could not extract amount from receipt")
    ELSE [success |-> TRUE, raw_text |-> raw_text, parsed_data |-> parsed_data]

\* the end of parse_receipt once image_to_string has returned raw_text;
\* parsed_data is _parse_expense_data(raw_text)
Success(raw_text, parsed_data) ==
    [success |-> TRUE, raw_text |-> raw_text, parsed_data |-> parsed_data]

SuccessResult(raw_text) == Success(raw_text, ParseExpenseData(raw_text))

CouldNotRead == "Could not read image file"

\* One run of parse_receipt after file.read() has returned contents:
\* raises says whether preprocessing raises, ocr is what image_to_string
\* does (ocr.parsed being _parse_expense_data(ocr.text), computed once for
\* each text the recognizer may return).  calls lists the stages entered,
\* ocr_input the image handed to the recognizer, recognized what the
\* recognizer answered.
OcrParseReceipt(contents, raises, ocr) ==
    LET image == ReadImageSafely(contents)
        processed_image == PreprocessImage(image[1], raises)
    IN  IF image = None
        THEN [result |-> FailureResult(CouldNotRead),
              calls |-> <<"_read_image_safely">>,
              ocr_input |-> None,
              recognized |-> None]
        ELSE IF ocr.kind = "raise"
        THEN [result |-> FailureResult(ocr.msg),
              calls |-> <<"_read_image_safely", "_preprocess_image",
                          "image_to_string">>,
              ocr_input |-> Some(processed_image),
              recognized |-> Some(ocr)]
        ELSE [result |-> Success(ocr.text, ocr.parsed),
              calls |-> <<"_read_image_safely", "_preprocess_image",
                          "image_to_string", "_parse_expense_data">>,
              ocr_input |-> Some(processed_image),
              recognized |-> Some([kind |-> "text", text |-> ocr.text])]

-----------------------------------------------------------------------------
(* The inputs of the model                                                 *)

\* Scenario A of the specification
ScenarioAText ==
    <<"W", "a", "l", "m", "a", "r", "t", " ", "S", "u", "p", "e", "r", "c",
      "e", "n", "t", "e", "r", "\n", "0", "1", "/", "1", "5", "/", "2",
      "0", "2", "4", "\n", "M", "i", "l", "k", " ", "3", ".", "9", "9",
      "\n", "B", "r", "e", "a", "d", " ", "2", ".", "5", "0", "\n", "T",
      "O", "T", "A", "L", " ", "$", "6", ".", "4", "9">>

EmptyText == <<>>

\* an amount and no merchant line
AmountOnlyText == <<"1", "2", ".", "5", "0", "\n", "-", "-">>

\* no digit anywhere, a merchant line
NoDigitsText ==
    <<"J", "o", "e", "'", "s", " ", "C", "a", "f", "e", "\n", "T", "h", "a",
      "n", "k", " ", "y", "o", "u">>

\* garbled recognition
GarbledText == <<"#", "@", "!", "\n", "?", "?", " ", "7">>

\* the texts image_to_string may return
RecognizedTexts ==
    <<ScenarioAText, EmptyText, AmountOnlyText, NoDigitsText, GarbledText>>

\* str(e) of the exceptions image_to_string may raise; an exception built
\* without arguments, such as MemoryError(), has the empty message
ExceptionMessages == {"", "tesseract is not installed or it's not in your PATH"}

\* _parse_expense_data of each of them, from text n on
RECURSIVE ParsedFrom(_)
ParsedFrom(n) ==
    IF n > Len(RecognizedTexts) THEN <<>>
    ELSE <<ParseExpenseData(RecognizedTexts[n])>> \o ParsedFrom(n + 1)

ParsedTexts == ParsedFrom(1)

RecognizerOutcomes ==
    {[kind |-> "text", text |-> RecognizedTexts[n], parsed |-> ParsedTexts[n]] :
        n \in DOMAIN RecognizedTexts}
    \cup {[kind |-> "raise", msg |-> m] : m \in ExceptionMessages}

TextPlain == <<"t", "e", "x", "t", "/", "p", "l", "a", "i", "n">>

ImagePng == <<"i", "m", "a", "g", "e", "/", "p", "n", "g">>

\* file.content_type: None, or a string
ContentTypes == {None, Some(TextPlain), Some(ImagePng)}

\* the uploaded bytes: an image, bytes that are no image, no bytes
FileContents == {"image", "garbage", "empty"}

\* the requests in flight
NumRequests == 2

Requests == 1..NumRequests

-----------------------------------------------------------------------------
(* The receipts router                                                     *)

VARIABLES
    pc,          \* pc[r]: "new", "reading" (suspended in await file.read()), "done"
    endpoint,    \* endpoint[r]: the handler request r is routed to
    current_user,\* current_user[r]: the id of the user get_current_user gave
    expenses_db, \* the list expenses_db of the expenses router
    file,        \* file[r]: the upload of request r, once it has arrived
    calls,       \* calls[r]: the stages of parse_receipt request r entered
    ocr_input,   \* ocr_input[r]: the image handed to image_to_string
    recognized,  \* recognized[r]: what image_to_string returned or raised
    result,      \* result[r]: the dict OCRService.parse_receipt returned
    response,    \* response[r]: the HTTP response of request r
    arg,         \* the argument of the function under test
    ret          \* its result, once applied

vars ==
    <<pc, endpoint, current_user, expenses_db, file, calls, ocr_input,
      recognized, result, response, arg, ret>>

routerVars ==
    <<pc, endpoint, current_user, expenses_db, file, calls, ocr_input,
      recognized, result, response>>

ImagePrefix == <<"i", "m", "a", "g", "e", "/">>

\* a validation that only asks for some content type
IsContentTypeSet(content_type) ==
    /\ content_type # None
    /\ content_type[1] # <<>>

\* not (not file.content_type or not file.content_type.startswith('image/'))
IsImageContentType(content_type) ==
    /\ content_type # None
    /\ content_type[1] # <<>>
    /\ StartsWith(content_type[1], 1, ImagePrefix)

MustBeImage == "File must be an image"

HTTPException(status_code, detail) ==
    [status_code |-> status_code, detail |-> detail]

RouterInit ==
    /\ pc = [r \in Requests |-> "new"]
    /\ endpoint = [r \in Requests |-> None]
    /\ current_user = [r \in Requests |-> None]
    /\ expenses_db = <<>>
    /\ file = [r \in Requests |-> None]
    /\ calls = [r \in Requests |-> <<>>]
    /\ ocr_input = [r \in Requests |-> None]
    /\ recognized = [r \in Requests |-> None]
    /\ result = [r \in Requests |-> None]
    /\ response = [r \in Requests |-> None]

Init ==
    /\ RouterInit
    /\ arg = <<>>
    /\ ret = None

\* POST /receipts/parse arrives, with current_user resolved: the handler runs
\* up to its first suspension, await file.read() in _read_image_safely
ParseReceiptStart(r) ==
    /\ pc[r] = "new"
    /\ endpoint' = [endpoint EXCEPT ![r] = Some("/receipts/parse")]
    /\ \E content_type \in ContentTypes, contents \in FileContents :
        /\ file' = [file EXCEPT ![r] =
                        Some([content_type |-> content_type, contents |-> contents])]
        /\ IF ~IsImageContentType(content_type)
           THEN /\ response' = [response EXCEPT ![r] =
                                    Some(HTTPException(400, MustBeImage))]
                /\ pc' = [pc EXCEPT ![r] = "done"]
           ELSE /\ pc' = [pc EXCEPT ![r] = "reading"]
                /\ UNCHANGED response
    /\ UNCHANGED <<current_user, expenses_db, calls, ocr_input, recognized,
                   result, arg, ret>>

\* the response of the handler to the dict of OCRService.parse_receipt
ParseReceiptResponse(res) ==
    IF ~res.success
    THEN HTTPException(400, res.error)
    ELSE [status_code |-> 200,
          body |-> [success |-> TRUE,
                    raw_text |-> res.raw_text,
                    parsed_data |-> res.parsed_data,
                    message |-> "Receipt parsed successfully"]]

\* file.read() returns: the rest of parse_receipt and of the handler run
\* without suspension
ParseReceiptResume(r) ==
    /\ pc[r] = "reading"
    /\ endpoint[r] = Some("/receipts/parse")
    /\ \E raises \in BOOLEAN, ocr \in RecognizerOutcomes :
        \E run \in {OcrParseReceipt(file[r][1].contents, raises, ocr)} :
            /\ calls' = [calls EXCEPT ![r] = run.calls]
            /\ ocr_input' = [ocr_input EXCEPT ![r] = run.ocr_input]
            /\ recognized' = [recognized EXCEPT ![r] = run.recognized]
            /\ result' = [result EXCEPT ![r] = Some(run.result)]
            /\ response' = [response EXCEPT ![r] =
                                Some(ParseReceiptResponse(run.result))]
    /\ pc' = [pc EXCEPT ![r] = "done"]
    /\ UNCHANGED <<endpoint, current_user, expenses_db, file, arg, ret>>

Next ==
    \E r \in Requests :
        \/ ParseReceiptStart(r)
        \/ ParseReceiptResume(r)

Spec == Init /\ [][Next]_vars

-----------------------------------------------------------------------------
(* parse_and_save_receipt, create_expense and the list expenses_db         *)

\* current_user["id"]
Users == {"user_1"}

\* the days datetime.now() and datetime.utcnow() may fall on
Days == {<<"2", "0", "2", "6", "-", "1", "1", "-", "0", "2">>, <<"2", "0", "2", "6", "-", "1", "1", "-", "0", "3">>}

\* d.get(key, default)
Get(d, key, default) == IF key \in DOMAIN d THEN d[key] ELSE default

\* a check of the amount that lets every record through
MissingAmountNever(parsed_data) == FALSE

\* not parsed_data.get("amount"): the amount is None or 0.0
MissingAmount(parsed_data) ==
    \/ Get(parsed_data, "amount", None) = None
    \/ Get(parsed_data, "amount", None) = Some(Dec(<<>>, <<>>))

\* f"exp_{len(expenses_db) + 1}"
ExpenseId(db) == <<"exp_", Len(db) + 1>>

\* an expense numbered by the count of the expenses stored from receipts
ExpenseFromReceiptPerSource(db, user, parsed_data, today) ==
    [id |-> <<"exp_",
              Cardinality({n \in DOMAIN db : "source" \in DOMAIN db[n]}) + 1>>,
     user_id |-> user,
     amount |-> parsed_data.amount,
     description |-> Get(parsed_data, "description", ReceiptExpense),
     category |-> Get(parsed_data, "category", "other"),
     date |-> Get(parsed_data, "date", Some(today)),
     merchant |-> Get(parsed_data, "merchant", None),
     items |-> Get(parsed_data, "items", <<>>),
     source |-> "receipt_ocr",
     created_at |-> today]

\* expense_data of parse_and_save_receipt; amount and date are kept as
\* parsed_data holds them, None or a value
ExpenseFromReceipt(db, user, parsed_data, today) ==
    [id |-> ExpenseId(db),
     user_id |-> user,
     amount |-> parsed_data.amount,
     description |-> Get(parsed_data, "description", ReceiptExpense),
     category |-> Get(parsed_data, "category", "other"),
     date |-> Get(parsed_data, "date", Some(today)),
     merchant |-> Get(parsed_data, "merchant", None),
     items |-> Get(parsed_data, "items", <<>>),
     source |-> "receipt_ocr",
     created_at |-> today]

CouldNotExtractAmount == "Could not extract amount from receipt"

\* what parse_and_save_receipt does with the dict of
\* OCRService.parse_receipt: its response, and expenses_db after it
ParseAndSaveOutcome(db, user, res, today) ==
    IF ~res.success
    THEN [response |-> HTTPException(400, res.error), db |-> db]
    ELSE IF MissingAmount(res.parsed_data)
    THEN [response |->
              [status_code |-> 200,
               body |-> [success |-> FALSE,
                         message |-> CouldNotExtractAmount,
                         raw_text |-> res.raw_text,
                         parsed_data |-> res.parsed_data]],
          db |-> db]
    ELSE LET expense_data ==
                 ExpenseFromReceipt(db, user, res.parsed_data, today)
         IN  [response |->
                  [status_code |-> 200,
                   body |-> [success |-> TRUE,
                             expense_id |-> expense_data.id,
                             expense |-> expense_data,
                             raw_text |-> res.raw_text,
                             parsed_data |-> res.parsed_data,
                             message |->
                                 "Receipt parsed and expense created successfully!"]],
              db |-> Append(db, expense_data)]

\* POST /receipts/parse-and-save arrives, with current_user resolved: the
\* handler runs up to its first suspension, await file.read()
ParseAndSaveStart(r) ==
    /\ pc[r] = "new"
    /\ endpoint' = [endpoint EXCEPT ![r] = Some("/receipts/parse-and-save")]
    /\ \E user \in Users, content_type \in ContentTypes,
          contents \in FileContents :
        /\ current_user' = [current_user EXCEPT ![r] = Some(user)]
        /\ file' = [file EXCEPT ![r] =
                        Some([content_type |-> content_type,
                              contents |-> contents])]
        /\ IF ~IsImageContentType(content_type)
           THEN /\ response' = [response EXCEPT ![r] =
                                    Some(HTTPException(400, MustBeImage))]
                /\ pc' = [pc EXCEPT ![r] = "done"]
           ELSE /\ pc' = [pc EXCEPT ![r] = "reading"]
                /\ UNCHANGED response
    /\ UNCHANGED <<expenses_db, calls, ocr_input, recognized, result, arg, ret>>

\* file.read() returns: the rest of parse_receipt and of the handler run
\* without suspension
ParseAndSaveResume(r) ==
    /\ pc[r] = "reading"
    /\ endpoint[r] = Some("/receipts/parse-and-save")
    /\ \E raises \in BOOLEAN, ocr \in RecognizerOutcomes, today \in Days :
        \E run \in {OcrParseReceipt(file[r][1].contents, raises, ocr)} :
            \E outcome \in {ParseAndSaveOutcome(expenses_db, current_user[r][1],
                                                run.result, today)} :
                /\ calls' = [calls EXCEPT ![r] = run.calls]
                /\ ocr_input' = [ocr_input EXCEPT ![r] = run.ocr_input]
                /\ recognized' = [recognized EXCEPT ![r] = run.recognized]
                /\ result' = [result EXCEPT ![r] = Some(run.result)]
                /\ response' = [response EXCEPT ![r] = Some(outcome.response)]
                /\ expenses_db' = outcome.db
    /\ pc' = [pc EXCEPT ![r] = "done"]
    /\ UNCHANGED <<endpoint, current_user, file, arg, ret>>

\* the bodies of POST /expenses/ that pass the validation of ExpenseCreate,
\* with date already a string
ExpenseCreates ==
    {[amount |-> Dec(<<5>>, <<>>),
      description |-> <<"L", "u", "n", "c", "h">>,
      category |-> "food",
      date |-> <<"2", "0", "2", "6", "-", "1", "1", "-", "0", "1">>]}

\* expense_data of create_expense
ExpenseFromBody(db, user, expense, today) ==
    [id |-> ExpenseId(db),
     user_id |-> user,
     amount |-> expense.amount,
     description |-> expense.description,
     category |-> expense.category,
     date |-> expense.date,
     created_at |-> today]

\* POST /expenses/ arrives, with current_user resolved: create_expense has
\* no suspension point
CreateExpense(r) ==
    /\ pc[r] = "new"
    /\ endpoint' = [endpoint EXCEPT ![r] = Some("/expenses/")]
    /\ \E user \in Users, expense \in ExpenseCreates, today \in Days :
        LET expense_data == ExpenseFromBody(expenses_db, user, expense, today)
        IN  /\ current_user' = [current_user EXCEPT ![r] = Some(user)]
            /\ expenses_db' = Append(expenses_db, expense_data)
            /\ response' = [response EXCEPT ![r] =
                   Some([status_code |-> 200,
                         body |-> [success |-> TRUE,
                                   id |-> expense_data.id,
                                   message |-> "Expense created successfully!",
                                   expense |-> expense_data]])]
    /\ pc' = [pc EXCEPT ![r] = "done"]
    /\ UNCHANGED <<file, calls, ocr_input, recognized, result, arg, ret>>

NextStore ==
    \E r \in Requests :
        \/ ParseReceiptStart(r)
        \/ ParseReceiptResume(r)
        \/ ParseAndSaveStart(r)
        \/ ParseAndSaveResume(r)
        \/ CreateExpense(r)

SpecStore == Init /\ [][NextStore]_vars

-----------------------------------------------------------------------------
(* The extractors on their own: a text is drawn, the function is applied   *)

RECURSIVE Flatten(_)
Flatten(pieces) ==
    IF pieces = <<>> THEN <<>> ELSE Head(pieces) \o Flatten(Tail(pieces))

\* '\n'.join(pieces)
RECURSIVE JoinLines(_)
JoinLines(pieces) ==
    IF pieces = <<>> THEN <<>>
    ELSE IF Len(pieces) = 1 THEN pieces[1]
    ELSE pieces[1] \o <<"\n">> \o JoinLines(Tail(pieces))

\* the sequences of at most max elements of atoms
Words(atoms, max) == UNION {[1..n -> atoms] : n \in 0..max}

\* the pieces the amount texts are made of: labels, separators, numbers
\* at and around 0.01 and 10000 ("0.0" + "1", "10000.0" + "1")
AmountAtoms ==
    {<<"T", "o", "t", "a", "l">>,
     <<"s", "u", "m">>,
     <<"$">>,
     <<" ">>,
     <<"\n">>,
     <<":">>,
     <<"0", ".", "0">>,
     <<"1">>,
     <<"9", ".", "9", "9">>,
     <<"1", "0", "0", "0", "0", ".", "0">>}

MaxAmountAtoms == 3

AmountTexts == {Flatten(w) : w \in Words(AmountAtoms, MaxAmountAtoms)}

InitAmount ==
    /\ RouterInit
    /\ arg \in AmountTexts
    /\ ret = None

\* ret = self._extract_amount(arg)
ApplyExtractAmount ==
    /\ ret = None
    /\ ret' = Some(ExtractAmount(arg))
    /\ UNCHANGED <<routerVars, arg>>

SpecAmount == InitAmount /\ [][ApplyExtractAmount]_vars

\* the lines the merchant texts are made of: a name with blanks around it,
\* a name after a digit group, a date, a short line, an empty line followed
\* by a line of digits and punctuation
MerchantPieces ==
    {<<" ", "A", "b", "c", " ">>,
     <<"7", "/", "x">>,
     <<"1", "2", "/", "3">>,
     <<"a", "b">>,
     <<"\n", "1", "-", "$", " ", ".", "5", " ">>}

MaxMerchantPieces == 6

MerchantTexts == {JoinLines(w) : w \in Words(MerchantPieces, MaxMerchantPieces)}

InitMerchant ==
    /\ RouterInit
    /\ arg \in MerchantTexts
    /\ ret = None

\* lines as _parse_expense_data builds them; ret = self._extract_merchant(lines)
ApplyExtractMerchant ==
    /\ ret = None
    /\ ret' = Some(ExtractMerchant(TextLines(arg)))
    /\ UNCHANGED <<routerVars, arg>>

SpecMerchant == InitMerchant /\ [][ApplyExtractMerchant]_vars

\* the pieces the parsed texts are made of; the last one is a line break and
\* an item whose name is a food keyword
ParseAtoms ==
    {<<"C", "a", "f", "e">>,
     <<"a", "b">>,
     <<"x">>,
     <<"\n">>,
     <<" ">>,
     <<"-", ".">>,
     <<"$">>,
     <<"1", ".", "5", "0">>,
     <<"7">>,
     <<"T", "o", "t", "a", "l">>,
     <<"\n", "C", "a", "f", "e", " ", "1", ".", "5", "0">>}

MaxParseAtoms == 3

ParseTexts == {Flatten(w) : w \in Words(ParseAtoms, MaxParseAtoms)}

InitParse ==
    /\ RouterInit
    /\ arg \in ParseTexts
    /\ ret = None

\* image_to_string has returned arg; ret is the dict parse_receipt returns
ApplyParseReceipt ==
    /\ ret = None
    /\ ret' = Some(SuccessResult(arg))
    /\ UNCHANGED <<routerVars, arg>>

SpecParse == InitParse /\ [][ApplyParseReceipt]_vars

\* the lines the item texts are made of: an item, a name of two characters,
\* a line without a price, a price of zero, two prices with a "$", a name
\* of punctuation
ItemPieces ==
    {<<"A", "b", "c", " ", "1", ".", "5", "0">>,
     <<"a", "b", " ", "2", ".", "0", "0">>,
     <<"A", "b", "c">>,
     <<"T", "e", "a", " ", "0", ".", "0", "0">>,
     <<"a", "-", "b", " ", "$", "1", ".", "0", "0", " ", "2", ".", "7", "5">>,
     <<"-", "-", " ", "3", ".", "0", "0">>}

MaxItemLines == 3

\* the lines the long item texts are made of: an item, and a line that is
\* no item followed by an item
LongItemPieces ==
    {<<"a", "b", "c", " ", "1", ".", "0", "0">>,
     <<"-", " ", "3", ".", "0", "0", "\n", "x", "y", "z", " ", "$", "2", ".", "5", "0">>}

MaxLongItemLines == 11

ItemTexts ==
    {JoinLines(w) : w \in Words(ItemPieces, MaxItemLines)}
    \cup {JoinLines(w) : w \in Words(LongItemPieces, MaxLongItemLines)}

InitItems ==
    /\ RouterInit
    /\ arg \in ItemTexts
    /\ ret = None

\* lines as _parse_expense_data builds them; ret = self._extract_items(lines)
ApplyExtractItems ==
    /\ ret = None
    /\ ret' = Some(ExtractItems(TextLines(arg)))
    /\ UNCHANGED <<routerVars, arg>>

SpecItems == InitItems /\ [][ApplyExtractItems]_vars

\* the pieces the merchant names are made of: a keyword of each set, in
\* upper, lower and mixed case, the sentinel, a letter and a blank
MerchantWords ==
    {<<"C", "a", "f", "e">>,
     <<"S", "T", "O", "R", "E">>,
     <<"g", "a", "s">>,
     <<"B", "i", "l", "l">>,
     <<"c", "l", "i", "n", "i", "c">>,
     UnknownMerchant,
     <<"x">>,
     <<" ">>}

MaxMerchantWords == 3

MerchantNames == {Flatten(w) : w \in Words(MerchantWords, MaxMerchantWords)}

\* the item lists handed to the classifier
ItemLists ==
    {<<>>,
     <<[name |-> <<"P", "i", "z", "z", "a">>, price |-> Dec(<<9>>, <<9, 9>>)]>>,
     <<[name |-> <<"A", "b", "c">>, price |-> Dec(<<1>>, <<5>>)],
       [name |-> <<"T", "a", "x", "i">>, price |-> Dec(<<2, 0>>, <<>>)]>>}

InitCategory ==
    /\ RouterInit
    /\ arg \in [merchant : MerchantNames, items : ItemLists]
    /\ ret = None

\* ret = self._determine_category(merchant, items)
ApplyDetermineCategory ==
    /\ ret = None
    /\ ret' = Some(DetermineCategory(arg.merchant, arg.items))
    /\ UNCHANGED <<routerVars, arg>>

SpecCategory == InitCategory /\ [][ApplyDetermineCategory]_vars

\* the pieces the date texts are made of: a date of each of the four
\* shapes, and what dates are made of
DateAtoms ==
    {<<"0", "1", "/", "0", "2", "/", "2", "4">>,
     <<"2", "0", "2", "4", "-", "0", "1", "-", "1", "5">>,
     <<"1", " ", "J", "a", "n", " ", "2", "0", "2", "4">>,
     <<"J", "a", "n", " ", "1", ",", " ", "2", "0", "2", "4">>,
     <<"1", "2">>,
     <<"2", "0", "2", "4">>,
     <<"/">>,
     <<"-">>,
     <<" ">>,
     <<"x">>}

MaxDateAtoms == 3

DateTexts == {Flatten(w) : w \in Words(DateAtoms, MaxDateAtoms)}

InitDate ==
    /\ RouterInit
    /\ arg \in DateTexts
    /\ ret = None

\* ret = self._extract_date(arg)
ApplyExtractDate ==
    /\ ret = None
    /\ ret' = Some(ExtractDate(arg))
    /\ UNCHANGED <<routerVars, arg>>

SpecDate == InitDate /\ [][ApplyExtractDate]_vars

\* the lines the record texts are made of: an item, an item of price zero,
\* an item above the range of amounts, a labelled amount that is an item
\* too, two prices on a line, a price without a name
RecordPieces ==
    {<<"A", "b", "c", " ", "1", ".", "5", "0">>,
     <<"T", "e", "a", " ", "0", ".", "0", "0">>,
     <<"T", "v", "s", " ", "1", "0", "0", "0", "0", ".", "0", "1">>,
     <<"s", "u", "m", " ", "1", ".", "0", "0">>,
     <<"a", "-", "b", " ", "$", "1", ".", "0", "0", " ", "2", ".", "7", "5">>,
     <<"a", "b", " ", "2", "0", ".", "0", "0">>}

MaxRecordLines == 3

RecordTexts == {JoinLines(w) : w \in Words(RecordPieces, MaxRecordLines)}

InitRecord ==
    /\ RouterInit
    /\ arg \in RecordTexts
    /\ ret = None

\* ret = self._parse_expense_data(arg)
ApplyParseExpenseData ==
    /\ ret = None
    /\ ret' = Some(ParseExpenseData(arg))
    /\ UNCHANGED <<routerVars, arg>>

SpecRecord == InitRecord /\ [][ApplyParseExpenseData]_vars

-----------------------------------------------------------------------------
(* AmountExtractor                                                         *)

\* the ends of the range of a plausible amount
OneCent == Dec(<<>>, <<0, 1>>)

TenThousand == Dec(<<1, 0, 0, 0, 0>>, <<>>)

InAmountRange(v) == LeqDec(OneCent, v) /\ LeqDec(v, TenThousand)

\* the parsed value of every match of every pattern on the lowercased text
AllMatchValues(text) ==
    UNION {{ParseFloat(AmountFindAll(p, Lower(text), 1)[n]) :
                n \in DOMAIN AmountFindAll(p, Lower(text), 1)} :
           p \in AmountPatterns}

\* C1: the amount _extract_amount returns is absent or a number a with
\* 0.01 <= a <= 10000; a numeric token outside the range is never the result.
C1_AmountInRange ==
    ret # None =>
        \/ ret[1] = None
        \/ InAmountRange(ret[1][1])

\* C1: a text with a match outside the range and a result all the same
C1_Witness ==
    /\ ret # None
    /\ ret[1] # None
    /\ \E v \in AllMatchValues(arg) : ~InAmountRange(v)
    /\ \E v \in AllMatchValues(arg) : LessDec(TenThousand, v)

\* C2: the result is the greatest in-range value among all matches of all
\* five patterns on the lowercased text, and is absent exactly when no match
\* of any pattern is in range.
C2_MaxOfAllMatches ==
    ret # None =>
        LET candidates == {v \in AllMatchValues(arg) : InAmountRange(v)}
        IN  /\ ret[1] = None <=> candidates = {}
            /\ ret[1] # None =>
                   /\ ret[1][1] \in candidates
                   /\ \A v \in candidates : LeqDec(v, ret[1][1])

\* C2: the result comes from a later pattern than the first one that has an
\* in-range match, and is greater than every in-range match of that one
C2_Witness ==
    /\ ret # None
    /\ ret[1] # None
    /\ \E p \in AmountPatterns :
           LET first == KeepReasonable(AmountFindAll(p, Lower(arg), 1), 1)
           IN  /\ first # <<>>
               /\ \A n \in DOMAIN first : LessDec(first[n], ret[1][1])
               /\ \A q \in 1..(p - 1) :
                      KeepReasonable(AmountFindAll(q, Lower(arg), 1), 1) = <<>>

-----------------------------------------------------------------------------
(* MerchantExtractor                                                       *)

\* the line starts with a digit group followed by "/" or "-" and a digit
StartsLikeDate(line) ==
    \E d \in 1..Len(line) :
        /\ \A n \in 1..d : line[n] \in DigitChars
        /\ d + 2 <= Len(line)
        /\ line[d + 1] \in {"/", "-"}
        /\ line[d + 2] \in DigitChars

\* the line consists solely of digits, whitespace, hyphens, periods and "$"
SolelyNumeric(line) ==
    \A n \in 1..Len(line) :
        line[n] \in DigitChars \cup Whitespace \cup {"-", ".", "$"}

QualifiesAsMerchant(line) ==
    /\ Len(line) >= 3
    /\ ~StartsLikeDate(line)
    /\ ~SolelyNumeric(line)

\* the positions among the first five trimmed non-empty lines that qualify
QualifyingOfFirstFive(lines) ==
    {n \in 1..(IF Len(lines) < 5 THEN Len(lines) ELSE 5) :
        QualifiesAsMerchant(lines[n])}

\* C10: the merchant is, verbatim, the first of the first five trimmed
\* non-empty lines that is at least 3 characters long, does not start like a
\* date and is not solely digits, whitespace, "-", "." and "$"; it is
\* "Unknown Merchant" when none of the five qualifies, whatever follows; so
\* it is never empty, never a numeric line and never a line starting like a
\* date.
C10_FirstQualifyingOfFive ==
    ret # None =>
        LET q == QualifyingOfFirstFive(TextLines(arg))
        IN  /\ q = {} => ret[1] = UnknownMerchant
            /\ q # {} =>
                   ret[1] = TextLines(arg)[CHOOSE n \in q : \A o \in q : n <= o]
            /\ ret[1] # <<>>
            /\ ~StartsLikeDate(ret[1])
            /\ ~SolelyNumeric(ret[1])

\* C10: none of the first five lines qualifies, the sixth does, and the
\* result is the sentinel
C10_Witness ==
    /\ ret = Some(UnknownMerchant)
    /\ Len(TextLines(arg)) >= 6
    /\ QualifiesAsMerchant(TextLines(arg)[6])

-----------------------------------------------------------------------------
(* The parsed record                                                       *)

NoDigits(text) == \A n \in 1..Len(text) : text[n] \notin DigitChars

\* C4 as stated: for a text without any digit the result is a success with
\* amount absent, merchant "Unknown Merchant", no items and category "other".
C4_NoDigitsAllDefaults ==
    (ret # None /\ NoDigits(arg)) =>
        /\ ret[1].success
        /\ ret[1].parsed_data.amount = None
        /\ ret[1].parsed_data.merchant = UnknownMerchant
        /\ ret[1].parsed_data.items = <<>>
        /\ ret[1].parsed_data.category = "other"

\* C4, amended: for a text without any digit the result is a success with
\* amount absent and no items; the merchant is "Unknown Merchant" and the
\* category "other" when none of the first five trimmed non-empty lines
\* qualifies as a merchant, and the merchant is the first qualifying line
\* otherwise.
C4_NoDigits ==
    (ret # None /\ NoDigits(arg)) =>
        LET q == QualifyingOfFirstFive(TextLines(arg))
        IN  /\ ret[1].success
            /\ ret[1].parsed_data.amount = None
            /\ ret[1].parsed_data.items = <<>>
            /\ q = {} =>
                   /\ ret[1].parsed_data.merchant = UnknownMerchant
                   /\ ret[1].parsed_data.category = "other"
            /\ q # {} =>
                   ret[1].parsed_data.merchant =
                       TextLines(arg)[CHOOSE n \in q : \A o \in q : n <= o]

\* C4: a text of several lines without a digit, none of them a merchant
C4_Witness ==
    /\ ret # None
    /\ NoDigits(arg)
    /\ Len(TextLines(arg)) >= 2
    /\ ret[1].success
    /\ ret[1].parsed_data.merchant = UnknownMerchant
    /\ ret[1].parsed_data.category = "other"

-----------------------------------------------------------------------------
(* The pipeline                                                            *)

\* the content type is missing or does not begin with "image/"
NotImageType(content_type) ==
    \/ content_type = None
    \/ Len(content_type[1]) < 6
    \/ SubSeq(content_type[1], 1, 6) # <<"i", "m", "a", "g", "e", "/">>

\* the bytes do not decode to a pixel matrix
Undecodable(contents) == contents \in {"garbage", "empty"}

Range(f) == {f[x] : x \in DOMAIN f}

\* C3 as stated: Scenario A parses to merchant "Walmart Supercenter", date
\* "01/15/2024", exactly the two items Milk 3.99 and Bread 2.50, amount 6.49
\* and category "shopping".
C3_ScenarioA ==
    \A r \in Requests :
        (result[r] # None /\ result[r][1].success
            /\ result[r][1].raw_text = ScenarioAText) =>
            LET parsed_data == result[r][1].parsed_data
            IN  /\ parsed_data.merchant =
                       <<"W", "a", "l", "m", "a", "r", "t", " ", "S", "u",
                         "p", "e", "r", "c", "e", "n", "t", "e", "r">>
                /\ parsed_data.date =
                       Some(<<"0", "1", "/", "1", "5", "/", "2", "0", "2", "4">>)
                /\ parsed_data.items =
                       <<[name |-> <<"M", "i", "l", "k">>, price |-> Dec(<<3>>, <<9, 9>>)],
                         [name |-> <<"B", "r", "e", "a", "d">>, price |-> Dec(<<2>>, <<5, 0>>)]>>
                /\ parsed_data.amount = Some(Dec(<<6>>, <<4, 9>>))
                /\ parsed_data.category = "shopping"

\* C5: once image_to_string has returned a text, parse_receipt returns a
\* success carrying that text, and the request is answered 200; a failure
\* of parse_receipt comes from a decode failure or a recognizer exception,
\* and a failed request from those or from the content type.
C5_RecognizedTextSucceeds ==
    \A r \in Requests :
        /\ (recognized[r] # None /\ recognized[r][1].kind = "text") =>
               /\ result[r] # None
               /\ result[r][1].success
               /\ result[r][1].raw_text = recognized[r][1].text
               /\ DOMAIN result[r][1].parsed_data # {}
               /\ response[r] # None
               /\ response[r][1].status_code = 200
        /\ (result[r] # None /\ ~result[r][1].success) =>
               \/ Undecodable(file[r][1].contents)
               \/ recognized[r] # None /\ recognized[r][1].kind = "raise"
        /\ (response[r] # None /\ response[r][1].status_code # 200) =>
               \/ NotImageType(file[r][1].content_type)
               \/ Undecodable(file[r][1].contents)
               \/ recognized[r] # None /\ recognized[r][1].kind = "raise"

\* C5: the recognizer returned the empty text and the result is a success
\* with every field absent or default
C5_Witness ==
    \E r \in Requests :
        /\ recognized[r] # None
        /\ recognized[r][1].kind = "text"
        /\ recognized[r][1].text = <<>>
        /\ result[r][1].success
        /\ result[r][1].parsed_data.amount = None
        /\ result[r][1].parsed_data.merchant = UnknownMerchant
        /\ result[r][1].parsed_data.items = <<>>
        /\ result[r][1].parsed_data.category = "other"
        /\ response[r][1].status_code = 200

\* C6: a request whose content type is missing or does not begin with
\* "image/" is answered 400 "File must be an image", and at no time has
\* parse_receipt been entered for it: nothing is read, decoded, preprocessed
\* or recognized.
C6_NonImageRejectedBeforeDecode ==
    \A r \in Requests :
        (file[r] # None /\ NotImageType(file[r][1].content_type)) =>
            /\ pc[r] = "done"
            /\ response[r] = Some([status_code |-> 400,
                                   detail |-> "File must be an image"])
            /\ calls[r] = <<>>
            /\ ocr_input[r] = None
            /\ recognized[r] = None
            /\ result[r] = None

\* C6: a request with content type text/plain and the bytes of an image
C6_Witness ==
    \E r \in Requests :
        /\ file[r] # None
        /\ file[r][1].content_type = Some(TextPlain)
        /\ file[r][1].contents = "image"
        /\ pc[r] = "done"
        /\ response[r] # None

\* C7: with an image content type and bytes that do not decode, the result
\* is the failure "Could not read image file", the request is answered with
\* it, and neither preprocessing nor recognition nor parsing was entered.
C7_DecodeFailure ==
    \A r \in Requests :
        (/\ pc[r] = "done"
         /\ ~NotImageType(file[r][1].content_type)
         /\ Undecodable(file[r][1].contents)) =>
            /\ result[r] # None
            /\ ~result[r][1].success
            /\ result[r][1].error = "Could not read image file"
            /\ response[r] = Some([status_code |-> 400,
                                   detail |-> "Could not read image file"])
            /\ Range(calls[r]) \cap {"_preprocess_image", "image_to_string",
                                     "_parse_expense_data"} = {}
            /\ ocr_input[r] = None
            /\ recognized[r] = None

\* C7: a request with content type image/png and bytes that are no image
C7_Witness ==
    \E r \in Requests :
        /\ pc[r] = "done"
        /\ file[r][1].content_type = Some(ImagePng)
        /\ file[r][1].contents = "garbage"
        /\ result[r] # None
        /\ ~result[r][1].success

\* C8 as stated: a result with success = false has an empty parsed_data, an
\* empty raw_text and a non-empty error; a non-empty parsed_data comes with
\* success = true.
C8_FailureHasReason ==
    \A r \in Requests :
        result[r] # None =>
            /\ ~result[r][1].success =>
                   /\ DOMAIN result[r][1].parsed_data = {}
                   /\ result[r][1].raw_text = <<>>
                   /\ "error" \in DOMAIN result[r][1]
                   /\ result[r][1].error # ""
            /\ DOMAIN result[r][1].parsed_data # {} => result[r][1].success

\* C9 as stated: the description is "Receipt from {merchant}" for a merchant
\* found in the text and "Receipt expense" for the sentinel.
C9_Description ==
    \A r \in Requests :
        (result[r] # None /\ result[r][1].success) =>
            LET parsed_data == result[r][1].parsed_data
            IN  parsed_data.description =
                    IF parsed_data.merchant = UnknownMerchant
                    THEN <<"R", "e", "c", "e", "i", "p", "t", " ",
                           "e", "x", "p", "e", "n", "s", "e">>
                    ELSE <<"R", "e", "c", "e", "i", "p", "t", " ",
                           "f", "r", "o", "m", " ">> \o parsed_data.merchant

-----------------------------------------------------------------------------
(* ItemExtractor                                                           *)

\* the monetary tokens of a line, from position i on, left to right: an
\* optional "$", digits, ".", two digits; each with the positions it covers
\* and the text of its number
RECURSIVE MonetaryTokens(_, _)
MonetaryTokens(line, i) ==
    IF i > Len(line) THEN <<>>
    ELSE LET n == IF line[i] = "$" THEN i + 1 ELSE i
             d == CHOOSE e \in n..(Len(line) + 1) :
                      /\ \A o \in n..(e - 1) : line[o] \in DigitChars
                      /\ e > Len(line) \/ line[e] \notin DigitChars
         IN  IF /\ d > n
                /\ d + 2 <= Len(line)
                /\ line[d] = "."
                /\ line[d + 1] \in DigitChars
                /\ line[d + 2] \in DigitChars
             THEN <<[from |-> i, to |-> d + 2,
                     number |-> SubSeq(line, n, d + 2)]>>
                  \o MonetaryTokens(line, d + 3)
             ELSE MonetaryTokens(line, i + 1)

\* what is left of the line as a name: the characters outside its monetary
\* tokens, punctuation read as blanks, trimmed
NameLeft(line) ==
    LET tokens == MonetaryTokens(line, 1)
        covered == UNION {tokens[t].from..tokens[t].to : t \in DOMAIN tokens}
        rest == [n \in 1..(Len(line) - Cardinality(covered)) |->
                    line[CHOOSE o \in DOMAIN line \ covered :
                        Cardinality({q \in DOMAIN line \ covered : q < o}) = n - 1]]
    IN  Strip([n \in DOMAIN rest |->
                  IF rest[n] \in WordChars \cup Whitespace THEN rest[n] ELSE " "])

\* the number of the last monetary token of a line that has one
LastTokenValue(line) ==
    LET tokens == MonetaryTokens(line, 1)
    IN  ParseFloat(tokens[Len(tokens)].number)

\* the line yields an item: it has a monetary token and a name longer than
\* 2 characters
QualifiesAsItem(line) ==
    /\ MonetaryTokens(line, 1) # <<>>
    /\ Len(NameLeft(line)) > 2

ItemOf(line) == [name |-> NameLeft(line), price |-> LastTokenValue(line)]

\* C11: _extract_items returns at most 10 items, and they are the items of
\* the first 10 qualifying lines, in the order of the lines.
C11_FirstTenInOrder ==
    ret # None =>
        LET q == SelectSeq(TextLines(arg), QualifiesAsItem)
        IN  /\ Len(ret[1]) <= 10
            /\ Len(ret[1]) = IF Len(q) < 10 THEN Len(q) ELSE 10
            /\ \A k \in DOMAIN ret[1] : ret[1][k] = ItemOf(q[k])

\* C11: more than 10 qualifying lines, of different items and with lines
\* that are no item between them, and ten items returned
C11_Witness ==
    /\ ret # None
    /\ Len(ret[1]) = 10
    /\ Len(SelectSeq(TextLines(arg), QualifiesAsItem)) > 10
    /\ Len(TextLines(arg)) > Len(SelectSeq(TextLines(arg), QualifiesAsItem))
    /\ \E k \in 1..9 : ret[1][k].name # ret[1][k + 1].name

Zero == Dec(<<>>, <<>>)

\* C12 as stated: every item returned has a price greater than 0.
C12_PricePositive ==
    ret # None =>
        \A k \in DOMAIN ret[1] : LessDec(Zero, ret[1][k].price)

\* C13: the price of every item is the last monetary token of its source
\* line and its name is longer than 2 characters; a line without a monetary
\* token, or with one and a name of at most 2 characters, yields no item.
C13_LastPriceAndName ==
    ret # None =>
        LET lines == TextLines(arg)
            q == SelectSeq(lines, QualifiesAsItem)
        IN  /\ Len(ret[1]) <= Len(q)
            /\ \A k \in DOMAIN ret[1] :
                   /\ ret[1][k].price = LastTokenValue(q[k])
                   /\ Len(ret[1][k].name) > 2
            /\ (\A n \in DOMAIN lines :
                    \/ MonetaryTokens(lines[n], 1) = <<>>
                    \/ Len(NameLeft(lines[n])) <= 2) => ret[1] = <<>>

\* C13: an item from a line with two different prices, next to a line with
\* a price and a name of two characters and a line without a price
C13_Witness ==
    /\ ret # None
    /\ Len(ret[1]) = 1
    /\ Len(TextLines(arg)) = 3
    /\ \E n \in DOMAIN TextLines(arg) :
           LET tokens == MonetaryTokens(TextLines(arg)[n], 1)
           IN  /\ Len(tokens) = 2
               /\ tokens[1].number # tokens[2].number
               /\ QualifiesAsItem(TextLines(arg)[n])
    /\ \E n \in DOMAIN TextLines(arg) :
           /\ MonetaryTokens(TextLines(arg)[n], 1) # <<>>
           /\ Len(NameLeft(TextLines(arg)[n])) \in 1..2
    /\ \E n \in DOMAIN TextLines(arg) :
           MonetaryTokens(TextLines(arg)[n], 1) = <<>>

-----------------------------------------------------------------------------
(* CategoryClassifier                                                      *)

\* C14: _determine_category returns, for every merchant string, the empty
\* one and the sentinel included, one of the seven values of
\* ExpenseCategory.
C14_CategoryTotal ==
    ret # None => ret[1] \in ExpenseCategory

\* C14: the empty merchant has been classified
C14_Witness ==
    /\ ret # None
    /\ arg.merchant = <<>>
    /\ ret[1] = "other"

\* the categories in the order in which their keywords are tried
CategoryOrder == <<"food", "shopping", "transport", "bills", "healthcare">>

KeywordsOf(category) ==
    CASE category = "food" -> food_keywords
      [] category = "shopping" -> shopping_keywords
      [] category = "transport" -> transport_keywords
      [] category = "bills" -> bills_keywords
      [] category = "healthcare" -> health_keywords

\* keyword is a substring of s
Occurs(keyword, s) ==
    \E i \in 1..(Len(s) - Len(keyword) + 1) :
        SubSeq(s, i, i + Len(keyword) - 1) = keyword

\* the places in CategoryOrder of the categories with a keyword occurring in
\* the lowercased merchant
MatchingCategories(merchant) ==
    {c \in DOMAIN CategoryOrder :
        \E n \in DOMAIN KeywordsOf(CategoryOrder[c]) :
            Occurs(KeywordsOf(CategoryOrder[c])[n], Lower(merchant))}

\* the first category in CategoryOrder with a keyword in the merchant,
\* "other" when there is none
CategoryOfMerchant(merchant) ==
    LET matching == MatchingCategories(merchant)
    IN  IF matching = {} THEN "other"
        ELSE CategoryOrder[CHOOSE c \in matching : \A d \in matching : c <= d]

\* C15: the category is the first of food, shopping, transport, bills,
\* healthcare with a keyword occurring in the lowercased merchant, and
\* "other" when no set has one.
C15_FirstCategoryInOrder ==
    ret # None => ret[1] = CategoryOfMerchant(arg.merchant)

\* C15: a merchant with a shopping keyword followed by a food keyword is
\* classified as food
C15_Witness ==
    /\ ret # None
    /\ arg.merchant = <<"S", "T", "O", "R", "E", " ", "C", "a", "f", "e">>
    /\ {1, 2} \subseteq MatchingCategories(arg.merchant)
    /\ ret[1] = "food"

-----------------------------------------------------------------------------
(* DateExtractor                                                           *)

\* the positions of text at which date pattern p matches
DateMatchPositions(p, text) ==
    {i \in 1..Len(text) : DateMatchAt(p, text, i).end > 0}

\* the date patterns that match somewhere in text
MatchingDatePatterns(text) ==
    {p \in 1..NumDatePatterns : DateMatchPositions(p, text) # {}}

Least(S) == CHOOSE x \in S : \A y \in S : x <= y

\* C17: the date is the leftmost match of the first of the four patterns
\* that matches anywhere in the text, even when a later pattern matches
\* earlier in the text; it is a substring of the text, unmodified; it is
\* absent exactly when no pattern matches.
C17_FirstPatternLeftmost ==
    ret # None =>
        LET matching == MatchingDatePatterns(arg)
        IN  /\ ret[1] = None <=> matching = {}
            /\ matching # {} =>
                   LET p == Least(matching)
                       i == Least(DateMatchPositions(p, arg))
                   IN  ret[1] =
                           Some(SubSeq(arg, i, DateMatchAt(p, arg, i).end - 1))

\* C17: a later pattern matches further left than the first matching
\* pattern, whose match is returned all the same
C17_Witness ==
    /\ ret # None
    /\ ret[1] # None
    /\ \E q \in MatchingDatePatterns(arg) :
           /\ q > Least(MatchingDatePatterns(arg))
           /\ Least(DateMatchPositions(q, arg)) <
                  Least(DateMatchPositions(Least(MatchingDatePatterns(arg)), arg))

\* four digits, "-" or "/", two digits, "-" or "/", two digits at position i
IsoTokenAt(text, i) ==
    /\ i + 9 <= Len(text)
    /\ \A n \in {0, 1, 2, 3, 5, 6, 8, 9} : text[i + n] \in DigitChars
    /\ text[i + 4] \in {"-", "/"}
    /\ text[i + 7] \in {"-", "/"}

\* C19 as stated: for a text whose only date-like token is a date of the
\* shape YYYY-MM-DD or YYYY/MM/DD, the date is that whole token.
C19_IsoDateWhole ==
    ret # None =>
        \A i \in 1..Len(arg) :
            (/\ IsoTokenAt(arg, i)
             /\ \A n \in DOMAIN arg \ (i..(i + 9)) : arg[n] \notin DigitChars) =>
                ret[1] = Some(SubSeq(arg, i, i + 9))

-----------------------------------------------------------------------------
(* ImagePreprocessor                                                       *)

\* C18: _preprocess_image never raises: once it is entered the recognizer
\* is called; when a step of it fails, the recognizer gets the decoded
\* matrix unchanged, and the result is a failure only if the recognizer
\* raises.
C18_PreprocessNeverFails ==
    \A r \in Requests :
        /\ "_preprocess_image" \in Range(calls[r]) =>
               /\ "image_to_string" \in Range(calls[r])
               /\ ocr_input[r] # None
               /\ recognized[r] # None
        /\ (ocr_input[r] # None /\ ocr_input[r][1].kind # "thresh") =>
               /\ ocr_input[r][1] =
                      [kind |-> "matrix", pixels |-> file[r][1].contents]
               /\ ~Undecodable(file[r][1].contents)
               /\ recognized[r][1].kind = "text" =>
                      /\ result[r][1].success
                      /\ response[r][1].status_code = 200
               /\ ~result[r][1].success => recognized[r][1].kind = "raise"

\* C18: preprocessing failed, the recognizer read the decoded matrix and the
\* request succeeded
C18_Witness ==
    \E r \in Requests :
        /\ ocr_input[r] # None
        /\ ocr_input[r][1].kind = "matrix"
        /\ recognized[r] # None
        /\ recognized[r][1].kind = "text"
        /\ result[r] # None
        /\ result[r][1].success

-----------------------------------------------------------------------------
(* Amount pattern (a)                                                      *)

\* C20 as stated: a label followed by a bare integer contributes no
\* candidate, so for a text without any "." (a text whose numbers are all
\* bare integers) no amount is returned.
C20_LabelNeedsDecimal ==
    (ret # None /\ \A n \in DOMAIN arg : arg[n] # ".") => ret[1] = None

-----------------------------------------------------------------------------
(* Consistency of the fields of one record                                 *)

\* C21: in a parsed record, for every item whose price lies in
\* [0.01, 10000] the amount is present and is at least that price.
C21_AmountCoversItems ==
    ret # None =>
        \A k \in DOMAIN ret[1].items :
            InAmountRange(ret[1].items[k].price) =>
                /\ ret[1].amount # None
                /\ LeqDec(ret[1].items[k].price, ret[1].amount[1])

\* C21: a record with an item in the range below the amount, an item in
\* the range that is the amount and an item outside the range
C21_Witness ==
    /\ ret # None
    /\ ret[1].amount # None
    /\ \E k \in DOMAIN ret[1].items :
           /\ InAmountRange(ret[1].items[k].price)
           /\ LessDec(ret[1].items[k].price, ret[1].amount[1])
    /\ \E k \in DOMAIN ret[1].items : ret[1].items[k].price = ret[1].amount[1]
    /\ \E k \in DOMAIN ret[1].items : ~InAmountRange(ret[1].items[k].price)

-----------------------------------------------------------------------------
(* C22: what parse-and-save and parse do to expenses_db                    *)

ParseEndpoint == Some("/receipts/parse")

ParseAndSaveEndpoint == Some("/receipts/parse-and-save")

\* request r takes a step
Steps(r) == pc'[r] # pc[r]

\* request r, an upload, ends with an image content type, a successful
\* recognition and an amount
EndsWithAmount(r) ==
    /\ pc'[r] = "done"
    /\ IsImageContentType(file'[r][1].content_type)
    /\ result'[r] # None
    /\ result'[r][1].success
    /\ result'[r][1].parsed_data.amount # None

\* expenses_db grows by exactly one entry, at its end
AppendsOne ==
    /\ Len(expenses_db') = Len(expenses_db) + 1
    /\ SubSeq(expenses_db', 1, Len(expenses_db)) = expenses_db

\* request r ends with a successful recognition that has no amount
EndsWithoutAmount(r) ==
    /\ pc'[r] = "done"
    /\ result'[r] # None
    /\ result'[r][1].success
    /\ result'[r][1].parsed_data.amount = None

\* C22: a step of a parse-and-save request appends exactly one expense to
\* expenses_db when the content type is an image type, the recognition
\* succeeded and an amount was extracted, and leaves expenses_db unchanged in
\* every other outcome; a success without amount answers success = false
\* with the message "Could not extract amount from receipt"; no step of a
\* parse request changes expenses_db.
C22_StoreFrame ==
    [][\A r \in Requests :
          /\ (Steps(r) /\ endpoint'[r] = ParseAndSaveEndpoint) =>
                 /\ EndsWithAmount(r) => AppendsOne
                 /\ ~EndsWithAmount(r) => expenses_db' = expenses_db
                 /\ EndsWithoutAmount(r) =>
                        /\ response'[r][1].status_code = 200
                        /\ response'[r][1].body.success = FALSE
                        /\ response'[r][1].body.message =
                               "Could not extract amount from receipt"
          /\ (Steps(r) /\ endpoint'[r] = ParseEndpoint) =>
                 expenses_db' = expenses_db]_vars

\* one parse-and-save request stored its expense and another one was
\* answered that no amount could be extracted: the store holds one expense
C22_Witness ==
    /\ Len(expenses_db) = 1
    /\ \E r1, r2 \in Requests :
        /\ endpoint[r1] = ParseAndSaveEndpoint
        /\ pc[r1] = "done"
        /\ response[r1][1].status_code = 200
        /\ response[r1][1].body.success
        /\ response[r1][1].body.expense = expenses_db[1]
        /\ endpoint[r2] = ParseAndSaveEndpoint
        /\ pc[r2] = "done"
        /\ response[r2][1].status_code = 200
        /\ ~response[r2][1].body.success
        /\ response[r2][1].body.message = CouldNotExtractAmount

-----------------------------------------------------------------------------
(* C23: the ids of expenses_db under concurrent requests                   *)

\* the entry was stored by parse_and_save_receipt
FromReceipt(expense) == "source" \in DOMAIN expense

\* C23: in every state reached by interleaving create_expense and
\* parse-and-save requests, the latter suspended at their await, no two
\* entries of expenses_db have the same id, and the id of the n-th entry is
\* "exp_" followed by n, the length of the store at its creation plus one.
C23_UniqueIds ==
    /\ \A m, n \in DOMAIN expenses_db :
           m # n => expenses_db[m].id # expenses_db[n].id
    /\ \A n \in DOMAIN expenses_db : expenses_db[n].id = <<"exp_", n>>

\* the store holds an expense of create_expense followed by one of
\* parse-and-save
C23_Witness ==
    /\ Len(expenses_db) = 2
    /\ ~FromReceipt(expenses_db[1])
    /\ FromReceipt(expenses_db[2])
    /\ \A r \in Requests : pc[r] = "done"

-----------------------------------------------------------------------------
(* C24: the date of an expense stored from a receipt                       *)

\* C24: every expense parse-and-save stored has a date, and the expense of
\* a receipt without extracted date carries the current date, the day of
\* its creation.
C24_StoredDate ==
    /\ \A n \in DOMAIN expenses_db :
           FromReceipt(expenses_db[n]) => expenses_db[n].date # None
    /\ \A r \in Requests :
           (/\ endpoint[r] = ParseAndSaveEndpoint
            /\ pc[r] = "done"
            /\ response[r][1].status_code = 200
            /\ response[r][1].body.success
            /\ response[r][1].body.parsed_data.date = None)
               => response[r][1].body.expense.date =
                      Some(response[r][1].body.expense.created_at)

=============================================================================
